---- MODULE Spec2Model ----
(***************************************************************************)
(* irc-search-index: the indexing job (build_index) and the query-serving *)
(* path (init_index, search_site).  Text is a sequence of one-character   *)
(* strings, so that the regular expressions, the file stem, the tokenizer *)
(* and the query syntax are computed character by character.              *)
(***************************************************************************)
EXTENDS Integers, Sequences, FiniteSets, TLC

\* Bounds of the model.
\* the files opened plus the lines read by one run of build_index: of the
\* indexing job taken alone, and of the job whose index is being served
MaxReads == 4
MaxServeReads == 3

\* the directory entries one walk yields
MaxDirs == 1

\* query.limit.unwrap_or(10)
DefaultLimit == 10

----------------------------------------------------------------------------
\* Characters.

Digits == {"0", "1", "2", "3", "4", "5", "6", "7", "8", "9"}

Letters ==
    {"a", "b", "c", "d", "e", "f", "g", "h", "i", "j", "k", "l", "m",
     "n", "o", "p", "q", "r", "s", "t", "u", "v", "w", "x", "y", "z"}

\* \s of the regex crate, on the characters the inputs use
IsSpace(c) == c \in {" ", "\t"}

IsDigit(c) == c \in Digits

\* [+@&]
IsStatus(c) == c \in {"+", "@", "&"}

None == <<>>

Some(x) == <<x>>

\* the smallest element of a non-empty set of integers
Min(S) == CHOOSE x \in S : \A y \in S : x <= y

\* the text from position i to the end
From(s, i) == SubSeq(s, i, Len(s))

----------------------------------------------------------------------------
\* RE and WS (lazy_static!).

\* (?P<time>\d{2}:\d{2}) at position p
TimeAt(line, p) ==
    /\ p + 4 <= Len(line)
    /\ IsDigit(line[p])
    /\ IsDigit(line[p + 1])
    /\ line[p + 2] = ":"
    /\ IsDigit(line[p + 3])
    /\ IsDigit(line[p + 4])

\* \s* is greedy and the nick starts with [^\s]: it ends at the first
\* character from q on that is no whitespace (Len + 1 when there is none)
SkipWS(line, q) ==
    Min({i \in q..(Len(line) + 1) : i = Len(line) + 1 \/ ~IsSpace(line[i])})

\* (?P<nick>[^\s][^>]+) > \s (?P<msg>.+) with the nick starting at s:
\* one character that is no whitespace, then at least one character that is
\* not '>', up to the next '>', which a whitespace and a non-empty rest follow
NickAt(line, s) ==
    IF s > Len(line) \/ IsSpace(line[s])
    THEN None
    ELSE LET gts == {i \in (s + 1)..Len(line) : line[i] = ">"}
         IN  IF gts = {}
             THEN None
             ELSE LET e == Min(gts)
                  IN  IF /\ e >= s + 2
                         /\ e + 2 <= Len(line)
                         /\ IsSpace(line[e + 1])
                      THEN Some([nick |-> SubSeq(line, s, e - 1),
                                 msg  |-> From(line, e + 2)])
                      ELSE None

\* the whole pattern with the time at p: [+@&]? first tries to take the
\* status character and gives it back when the rest does not match
MatchAt(line, p) ==
    IF ~TimeAt(line, p) \/ p + 5 > Len(line) \/ ~IsSpace(line[p + 5])
    THEN None
    ELSE LET q       == p + 6
             taken   == IF q <= Len(line) /\ IsStatus(line[q])
                        THEN NickAt(line, SkipWS(line, q + 1))
                        ELSE None
             untaken == NickAt(line, SkipWS(line, q))
             m       == IF taken # None THEN taken ELSE untaken
         IN  IF m = None
             THEN None
             ELSE Some([time |-> SubSeq(line, p, p + 4),
                        nick |-> m[1].nick,
                        msg  |-> m[1].msg])

\* RE.captures(&line): the leftmost match (the pattern is not anchored)
Captures(line) ==
    LET starts == {p \in 1..Len(line) : MatchAt(line, p) # None}
    IN  IF starts = {} THEN None ELSE MatchAt(line, Min(starts))

\* WS.is_match(text)
WSIsMatch(text) == \E i \in 1..Len(text) : IsSpace(text[i])

\* file_stem() mistaken for file_name(): the extension stays
FileStemWithExtension(name) == name

\* entry.path().file_stem(): the file name up to its last '.', the whole
\* name when it has none or only a leading one
FileStem(name) ==
    LET dots == {i \in 2..Len(name) : name[i] = "."}
    IN  IF dots = {}
        THEN name
        ELSE SubSeq(name, 1, (CHOOSE i \in dots : \A j \in dots : j <= i) - 1)

\* format!("{} {}", date, &caps["time"])
DateTime(date, time) == date \o <<" ">> \o time

\* the body of the loop over reader.lines(): the documents the line adds
LineDocs(date, line) ==
    LET caps == Captures(line)
    IN  IF caps = None
        THEN <<>>
        ELSE IF WSIsMatch(caps[1].nick)
             THEN <<>>
             ELSE <<[time |-> DateTime(date, caps[1].time),
                     nick |-> caps[1].nick,
                     msg  |-> caps[1].msg]>>

----------------------------------------------------------------------------
\* Inputs: log lines and file names.

T1234 == <<"1", "2", ":", "3", "4">>

\* 12:34 <alice> hello world
LAlice ==
    T1234 \o <<" ", "<", "a", "l", "i", "c", "e", ">", " ",
               "h", "e", "l", "l", "o", " ", "w", "o", "r", "l", "d">>

\* 12:35 +bob bad line
LBob ==
    <<"1", "2", ":", "3", "5", " ", "+", "b", "o", "b", " ",
      "b", "a", "d", " ", "l", "i", "n", "e">>

\* 12:36 < > empty speaker
LEmpty ==
    <<"1", "2", ":", "3", "6", " ", "<", " ", ">", " ",
      "e", "m", "p", "t", "y", " ", "s", "p", "e", "a", "k", "e", "r">>

\* *** alice has joined
LJoin ==
    <<"*", "*", "*", " ", "a", "l", "i", "c", "e", " ",
      "h", "a", "s", " ", "j", "o", "i", "n", "e", "d">>

\* 12:40 carol> hello there
LCarol ==
    <<"1", "2", ":", "4", "0", " ", "c", "a", "r", "o", "l", ">", " ",
      "h", "e", "l", "l", "o", " ", "t", "h", "e", "r", "e">>

\* 12:41 a> hi
LShort == <<"1", "2", ":", "4", "1", " ", "a", ">", " ", "h", "i">>

\* 12:42 +dave> hi
LVoiced ==
    <<"1", "2", ":", "4", "2", " ", "+", "d", "a", "v", "e", ">", " ", "h", "i">>

\* 12:34:56 bob> hi
LSeconds ==
    T1234 \o <<":", "5", "6", " ", "b", "o", "b", ">", " ", "h", "i">>

\* 2020-01-01.log
Name1 ==
    <<"2", "0", "2", "0", "-", "0", "1", "-", "0", "1", ".", "l", "o", "g">>

\* 2020-01-02.log
Name2 ==
    <<"2", "0", "2", "0", "-", "0", "1", "-", "0", "2", ".", "l", "o", "g">>

FileNames == {Name1, Name2}

\* the lines the indexing job is run on
LineSet == {LAlice, LBob, LEmpty, LJoin, LCarol, LShort, LVoiced, LSeconds}

\* the lines of the logs behind the served index
ServeLines == {LAlice, LCarol}

\* a document of an earlier build of the destination
OldDoc ==
    [time |-> <<"1", "9", "9", "9", " ", "0", "0", ":", "0", "0">>,
     nick |-> <<"o", "l", "d">>,
     msg  |-> <<"h", "e", "l", "l", "o">>]

----------------------------------------------------------------------------
VARIABLES
    store,      \* the index directory: whether it holds a store, and the
                \* documents of its committed segments
    pc,         \* where build_index is: idle, walk, file, done, failed
    date,       \* the date of the file being read
    pending,    \* documents given to the IndexWriter, not yet committed
    count,      \* count
    result,     \* what build_index hands to run(): none, Ok, Err, panic
    printed,    \* the number println!("Indexed {} lines") wrote, if any
    cause,      \* the step that failed, if any
    walked,     \* the files opened so far, each with the lines read from it
    dirs,       \* the directory entries the walk yielded so far
    commits,    \* the calls of index_writer.commit() so far
    srv,        \* the serving process: off, serving, failed
    opened,     \* the committed documents when init_index opened the handle
    resp        \* the response to the last request to /search

bvars == <<store, pc, date, pending, count, result, printed, cause, walked,
           dirs, commits>>

svars == <<srv, opened, resp>>

vars == <<store, pc, date, pending, count, result, printed, cause, walked,
          dirs, commits, srv, opened, resp>>

NoStore == [exists |-> FALSE, docs |-> <<>>]

EmptyStore == [exists |-> TRUE, docs |-> <<>>]

NoResult == [tag |-> "none", val |-> <<>>, err |-> "none"]

\* Ok(())
OkUnit == [tag |-> "Ok", val |-> <<>>, err |-> "none"]

\* Err(e), e converted by the foreign link of errors.rs
Err(e) == [tag |-> "Err", val |-> <<>>, err |-> e]

\* unwrap() or expect() on an Err: the thread unwinds, no value is returned
Panic == [tag |-> "panic", val |-> <<>>, err |-> "none"]

NoResp ==
    [kind |-> "none", q |-> <<>>, limit |-> 0, num_hits |-> 0,
     shown_hits |-> 0, hits |-> <<>>, limit_10 |-> FALSE, limit_50 |-> FALSE,
     limit_100 |-> FALSE, searched |-> <<>>]

\* the lines read so far, over all files
TotalLines(w) ==
    LET RECURSIVE Sum(_)
        Sum(i) == IF i = 0 THEN 0 ELSE Sum(i - 1) + Len(w[i].lines)
    IN  Sum(Len(w))

\* the files opened and the lines read so far
Reads(w) == Len(w) + TotalLines(w)

\* what a reader of the index directory gets: the committed documents
Visible(st) == IF st.exists THEN st.docs ELSE <<>>

\* nothing has run yet
Fresh ==
    /\ pc = "idle"
    /\ date = <<>>
    /\ pending = <<>>
    /\ count = 0
    /\ result = NoResult
    /\ printed = <<>>
    /\ cause = "none"
    /\ walked = <<>>
    /\ dirs = 0
    /\ commits = 0
    /\ srv = "off"
    /\ opened = <<>>
    /\ resp = NoResp

\* the index is built into an empty directory, and served from it
Init == store = NoStore /\ Fresh

\* the indexing job taken alone: the destination is empty, or holds the
\* store of an earlier build
BuildInit == store \in {NoStore, [exists |-> TRUE, docs |-> <<OldDoc>>]} /\ Fresh

\* build_index returns or unwinds at the step named by c
Fail(r, c) ==
    /\ pc' = "failed"
    /\ result' = r
    /\ cause' = c
    /\ pending' = <<>>

\* Index::create(index_path, schema)? and index.writer(500_000_000)?
\* Index::create fails, or leaves a store without documents in the directory;
\* the source does not say which of the two it does when the directory holds
\* a store already, and the model lets it do either
BuildStart ==
    /\ pc = "idle"
    /\ \/ /\ Fail(Err("TantivyError"), "create")
          /\ UNCHANGED <<store, count>>
       \/ /\ store' = EmptyStore
          /\ Fail(Err("TantivyError"), "writer")
          /\ UNCHANGED count
       \/ /\ store' = EmptyStore
          /\ pc' = "walk"
          /\ pending' = <<>>
          /\ count' = 0
          /\ UNCHANGED <<result, cause>>
    /\ UNCHANGED <<date, printed, walked, dirs, commits, svars>>

\* for entry in WalkDir::new(data_path): the entry is an error
WalkError ==
    /\ pc = "walk"
    /\ Fail(Panic, "walk")
    /\ UNCHANGED <<store, date, count, printed, walked, dirs, commits, svars>>

\* the entry is a directory, and is counted as a line
WalkDirectoryCounted ==
    /\ pc = "walk"
    /\ dirs < MaxDirs
    /\ dirs' = dirs + 1
    /\ count' = count + 1
    /\ UNCHANGED <<store, pc, date, pending, result, printed, cause,
                   walked, commits, svars>>

\* the entry is a directory: continue
WalkDirectory ==
    /\ pc = "walk"
    /\ dirs < MaxDirs
    /\ dirs' = dirs + 1
    /\ UNCHANGED <<store, pc, date, pending, count, result, printed, cause,
                   walked, commits, svars>>

\* the entry is a file: its stem is the date, File::open(entry.path())?
WalkFile(max) ==
    /\ pc = "walk"
    /\ Reads(walked) < max
    /\ \E name \in FileNames :
          \/ /\ Fail(Err("Io"), "open")
             /\ UNCHANGED <<date, walked>>
          \/ /\ date' = FileStem(name)
             /\ walked' = Append(walked, [name |-> name, lines |-> <<>>])
             /\ pc' = "file"
             /\ UNCHANGED <<pending, result, cause>>
    /\ UNCHANGED <<store, count, printed, dirs, commits, svars>>

\* one turn of the loop over reader.lines(), the line drawn from S
ReadLine(S, max) ==
    /\ pc = "file"
    /\ Reads(walked) < max
    /\ \/ /\ Fail(Err("Io"), "read")
          /\ UNCHANGED <<count, walked>>
       \/ \E line \in S :
             LET docs == LineDocs(date, line)
                 n    == Len(walked)
             IN  /\ pending' = pending \o docs
                 /\ count' = count + Len(docs)
                 /\ walked' = [walked EXCEPT ![n].lines = Append(@, line)]
                 /\ UNCHANGED <<pc, result, cause>>
    /\ UNCHANGED <<store, date, printed, dirs, commits, svars>>

\* a commit at the end of every file
EndOfFileCommits ==
    /\ pc = "file"
    /\ pc' = "walk"
    /\ commits' = commits + 1
    /\ store' = [store EXCEPT !.docs = @ \o pending]
    /\ pending' = <<>>
    /\ UNCHANGED <<date, count, result, printed, cause, walked, dirs, svars>>

\* reader.lines() is exhausted: the next entry of the walk
EndOfFile ==
    /\ pc = "file"
    /\ pc' = "walk"
    /\ UNCHANGED <<store, date, pending, count, result, printed, cause,
                   walked, dirs, commits, svars>>

\* the walk is exhausted: index_writer.commit().expect("Can't write index"),
\* println!("Indexed {} lines", count), Ok(())
CommitIndex ==
    /\ pc = "walk"
    /\ commits' = commits + 1
    /\ \/ /\ Fail(Panic, "commit")
          /\ UNCHANGED <<store, printed>>
       \/ /\ store' = [store EXCEPT !.docs = @ \o pending]
          /\ pending' = <<>>
          /\ printed' = <<count>>
          /\ result' = OkUnit
          /\ pc' = "done"
          /\ UNCHANGED cause
    /\ UNCHANGED <<date, count, walked, dirs, svars>>

----------------------------------------------------------------------------
\* The index as search_site uses it: the tokenizer of the TEXT fields and
\* the query syntax of QueryParser.

\* the characters of a token of a TEXT field (the inputs are in lower case)
IsAlnum(c) == c \in Letters \cup Digits

\* schema.get_field(name)
FieldOf(name) ==
    CASE name = <<"t", "i", "m", "e">> -> Some("time")
      [] name = <<"n", "i", "c", "k">> -> Some("nick")
      [] name = <<"m", "s", "g">> -> Some("msg")
      [] OTHER -> None

\* QueryParser::new(index.schema(), vec![nick_field, msg_field])
DefaultFields == {"nick", "msg"}

IsWord(w) == Len(w) > 0 /\ \A i \in 1..Len(w) : IsAlnum(w[i])

\* one clause: `field:term`, or `term` over the default fields
ParseClause(c) ==
    LET colons == {i \in 1..Len(c) : c[i] = ":"}
    IN  IF colons = {}
        THEN IF IsWord(c)
             THEN Some([fields |-> DefaultFields, term |-> c])
             ELSE None
        ELSE LET i == Min(colons)
                 f == FieldOf(SubSeq(c, 1, i - 1))
                 w == From(c, i + 1)
             IN  IF f # None /\ IsWord(w)
                 THEN Some([fields |-> {f[1]}, term |-> w])
                 ELSE None

\* the clauses of a query string: its maximal runs without whitespace
Clauses(q) ==
    {SubSeq(q, r[1], r[2]) : r \in
        {r \in (1..Len(q)) \X (1..Len(q)) :
            /\ r[1] <= r[2]
            /\ \A k \in r[1]..r[2] : ~IsSpace(q[k])
            /\ r[1] = 1 \/ IsSpace(q[r[1] - 1])
            /\ r[2] = Len(q) \/ IsSpace(q[r[2] + 1])}}

\* idx.query_parser.parse_query(&user_query): the clauses, joined by OR
ParseQuery(q) ==
    LET cs == Clauses(q)
    IN  IF cs = {} \/ \E c \in cs : ParseClause(c) = None
        THEN None
        ELSE Some({ParseClause(c)[1] : c \in cs})

\* the term is a token of the text: a maximal run of token characters
HasToken(text, term) ==
    \E i \in 1..(Len(text) - Len(term) + 1) :
        /\ SubSeq(text, i, i + Len(term) - 1) = term
        /\ i = 1 \/ ~IsAlnum(text[i - 1])
        /\ i + Len(term) - 1 = Len(text) \/ ~IsAlnum(text[i + Len(term)])

\* the document matches the query: some clause's term is a token of one of
\* the clause's fields
Matches(query, doc) ==
    \E cl \in query : \E f \in cl.fields : HasToken(doc[f], cl.term)

\* the addresses of the documents of `docs` the query matches
Matching(query, docs) == {i \in 1..Len(docs) : Matches(query, docs[i])}

\* CountCollector: every matching document is counted
CountCollect(query, docs) == Cardinality(Matching(query, docs))

\* the sequences without repetition of n elements of S
Arrangements(S, n) ==
    {a \in [1..n -> S] : \A i, j \in 1..n : i # j => a[i] # a[j]}

\* TopCollector::with_limit(limit): the addresses it may hold after the
\* search, best first; the scores decide which, and the model leaves them open
TopCollect(query, docs, limit) ==
    LET m == Matching(query, docs)
        n == IF Cardinality(m) < limit THEN Cardinality(m) ELSE limit
    IN  Arrangements(m, n)

\* Hit { time, nick, msg } of a retrieved document
HitOf(doc) == [time |-> doc.time, nick |-> doc.nick, msg |-> doc.msg]

\* hello
QHello == <<"h", "e", "l", "l", "o">>

\* msg:hello
QMsgHello == <<"m", "s", "g", ":">> \o QHello

\* (hello
QUnbalanced == <<"(">> \o QHello

\* query.q: Option<String>
QueryInputs == {None, Some(QHello), Some(QMsgHello), Some(QUnbalanced)}

\* query.limit: Option<usize>
LimitInputs == {None, Some(0), Some(1), Some(100)}

\* init_index(&index_path): Index::open(index_path)?
InitIndex ==
    /\ srv = "off"
    /\ \/ /\ srv' = "failed"
          /\ UNCHANGED opened
       \/ /\ store.exists
          /\ srv' = "serving"
          /\ opened' = store.docs
    /\ UNCHANGED <<resp, bvars>>

\* num_hits taken from the truncated hits
ResultsCountingShown(q, limit, query, docs, top) ==
    [kind |-> "results", q |-> q, limit |-> limit,
     num_hits |-> Len(top),
     shown_hits |-> Len(top),
     hits |-> [i \in 1..Len(top) |-> HitOf(docs[top[i]])],
     limit_10 |-> (limit = 10), limit_50 |-> (limit = 50),
     limit_100 |-> (limit = 100), searched |-> docs]

\* the SearchResult of a search of `docs` that collected `top`
Results(q, limit, query, docs, top) ==
    [kind |-> "results", q |-> q, limit |-> limit,
     num_hits |-> CountCollect(query, docs),
     shown_hits |-> Len(top),
     hits |-> [i \in 1..Len(top) |-> HitOf(docs[top[i]])],
     limit_10 |-> (limit = 10), limit_50 |-> (limit = 50),
     limit_100 |-> (limit = 100), searched |-> docs]

\* what the handler did instead of rendering results
NoResults(kind, q, limit) ==
    [NoResp EXCEPT !.kind = kind, !.q = q, !.limit = limit]

\* the searcher made once, when the handle was opened
LoadSearchersAtOpen == opened

\* idx.index.load_searchers()?; idx.index.searcher(): the documents of the
\* segments committed to the directory now
LoadSearchers == store.docs

\* parse_query on each query of the inputs
Parsed == [qo \in QueryInputs \ {None} |-> ParseQuery(qo[1])]

\* GET /search?<query>
SearchSite ==
    /\ srv = "serving"
    /\ \E qo \in QueryInputs, lo \in LimitInputs :
          IF qo = None
          THEN resp' = NoResults("empty", <<>>, 0)
          ELSE LET q      == qo[1]
                   limit  == IF lo = None THEN DefaultLimit ELSE lo[1]
                   docs   == LoadSearchers
                   parsed == Parsed[qo]
               IN  \/ resp' = NoResults("error", q, limit)
                   \/ /\ parsed = None
                      /\ resp' = NoResults("panic", q, limit)
                   \/ /\ parsed # None
                      /\ limit = 0
                      /\ resp' = NoResults("panic", q, limit)
                   \/ /\ parsed # None
                      /\ \E top \in TopCollect(parsed[1], docs, limit) :
                            resp' = Results(q, limit, parsed[1], docs, top)
    /\ UNCHANGED <<srv, opened, bvars>>

BuildNext ==
    \/ BuildStart
    \/ WalkError
    \/ WalkDirectory
    \/ WalkFile(MaxReads)
    \/ ReadLine(LineSet, MaxReads)
    \/ EndOfFile
    \/ CommitIndex

BuildSpec == BuildInit /\ [][BuildNext]_vars

Next ==
    \/ BuildStart
    \/ WalkError
    \/ WalkDirectory
    \/ WalkFile(MaxServeReads)
    \/ ReadLine(ServeLines, MaxServeReads)
    \/ EndOfFile
    \/ CommitIndex
    \/ InitIndex
    \/ SearchSite

Spec == Init /\ [][Next]_vars

----------------------------------------------------------------------------
\* What the claims speak of.

\* the step read a line of the open file
JustRead ==
    /\ Len(walked') = Len(walked)
    /\ TotalLines(walked') = TotalLines(walked) + 1

\* the line read last
LastLine(w) == w[Len(w)].lines[Len(w[Len(w)].lines)]

\* the recognized shape with the time at p: HH:MM, one space, a speaker that
\* is a non-empty run holding neither '>' nor whitespace, "> ", the rest
ShapeAt(line, p) ==
    IF ~TimeAt(line, p) \/ p + 5 > Len(line) \/ line[p + 5] # " "
    THEN None
    ELSE LET gts == {i \in (p + 6)..Len(line) : line[i] = ">"}
         IN  IF gts = {}
             THEN None
             ELSE LET e       == Min(gts)
                      speaker == SubSeq(line, p + 6, e - 1)
                  IN  IF /\ Len(speaker) > 0
                         /\ ~WSIsMatch(speaker)
                         /\ e + 2 <= Len(line)
                         /\ line[e + 1] = " "
                      THEN Some([time    |-> SubSeq(line, p, p + 4),
                                 speaker |-> speaker,
                                 msg     |-> From(line, e + 2)])
                      ELSE None

\* the recognized shape: the time at the start, or after one status character
Shape(line) ==
    IF ShapeAt(line, 1) # None THEN ShapeAt(line, 1) ELSE ShapeAt(line, 2)

\* the loop body skips the line: RE does not match it, or the speaker RE
\* captures holds whitespace
Rejected(line) ==
    \/ Captures(line) = None
    \/ WSIsMatch(Captures(line)[1].nick)

\* the line is not of the recognized shape, or the speaker RE captures in
\* it holds whitespace
Unshaped(line) ==
    \/ Shape(line) = None
    \/ Captures(line) # None /\ WSIsMatch(Captures(line)[1].nick)

\* the lines of the files walked, in the order read
AllLines(w) ==
    LET RECURSIVE Cat(_)
        Cat(i) == IF i = 0 THEN <<>> ELSE Cat(i - 1) \o w[i].lines
    IN  Cat(Len(w))

\* the lines of the files walked that are not rejected
AcceptedLines(w) ==
    Cardinality({i \in 1..Len(AllLines(w)) : ~Rejected(AllLines(w)[i])})

\* 2020-01-01 12:34
Time1 ==
    <<"2", "0", "2", "0", "-", "0", "1", "-", "0", "1", " ">> \o T1234

HelloWorld == <<"h", "e", "l", "l", "o", " ", "w", "o", "r", "l", "d">>

\* the build has ended with Ok over one file, 2020-01-01.log, whose only
\* line is `12:34 <alice> hello world`, and the last request searched the
\* built index for msg:hello with limit 10
Scenario ==
    /\ pc = "done"
    /\ walked = <<[name |-> Name1, lines |-> <<LAlice>>]>>
    /\ resp.kind = "results"
    /\ resp.q = QMsgHello
    /\ resp.limit = 10
    /\ resp.searched = store.docs

----------------------------------------------------------------------------
\* C1: every line of the recognized shape (speakers of length 1 included)
\* adds exactly one document: time = date + " " + HH:MM, nick = the speaker
\* exactly, msg = the remainder exactly.
C1_ShapedLineAddsItsRecord ==
    [][(JustRead /\ Shape(LastLine(walked')) # None) =>
          LET sh == Shape(LastLine(walked'))[1]
          IN  pending' = Append(pending,
                                [time |-> date \o <<" ">> \o sh.time,
                                 nick |-> sh.speaker,
                                 msg  |-> sh.msg])]_vars

\* C2 as stated: the scenario's only hit is time "2020-01-01 12:34",
\* nick "alice", msg "hello world", and the total match count is 1.
C2_HitNickAlice ==
    Scenario =>
        /\ resp.hits = <<[time |-> Time1,
                          nick |-> <<"a", "l", "i", "c", "e">>,
                          msg  |-> HelloWorld]>>
        /\ resp.shown_hits = 1
        /\ resp.num_hits = 1

\* C2 amended: the scenario's only hit is time "2020-01-01 12:34",
\* nick "<alice" (the '<' is part of the captured speaker), msg
\* "hello world", and the total match count is 1.
C2_HitNickWithBracket ==
    Scenario =>
        /\ resp.hits = <<[time |-> Time1,
                          nick |-> <<"<", "a", "l", "i", "c", "e">>,
                          msg  |-> HelloWorld]>>
        /\ resp.shown_hits = 1
        /\ resp.num_hits = 1

C2_Witness == Scenario /\ resp.shown_hits = 1

\* C3: a line that is not of the recognized shape, or whose captured
\* speaker holds whitespace, adds no document and raises no error; a build
\* that ends over such lines only has succeeded and has committed a store of
\* zero documents.
C3_UnshapedLineAddsNothing ==
    /\ [][(JustRead /\ Unshaped(LastLine(walked'))) =>
             /\ pending' = pending
             /\ count' = count
             /\ pc' = "file"
             /\ result' = NoResult]_vars
    /\ [](pc = "done" /\ (\A i \in 1..Len(AllLines(walked)) :
                             Unshaped(AllLines(walked)[i])) =>
             /\ result = OkUnit
             /\ store = EmptyStore)

C6_FailuresAreReturned ==
    cause \in {"walk", "open", "read", "create", "commit"} =>
        result.tag = "Err"

\* C7: a query the parser rejects is answered with an error reported to the
\* caller: no result, and the handler is not aborted.
C7_BadQueryIsAnError ==
    (resp.kind \in {"error", "panic", "results"} /\ ParseQuery(resp.q) = None)
        => resp.kind = "error"

\* C8: one search yields shown_hits <= limit and shown_hits <= num_hits,
\* and num_hits is the number of all the documents of the searched store
\* that match the query, whatever the limit.
C8_LimitBoundsOnlyTheHits ==
    resp.kind = "results" =>
        /\ resp.shown_hits = Len(resp.hits)
        /\ resp.shown_hits <= resp.limit
        /\ resp.shown_hits <= resp.num_hits
        /\ resp.num_hits =
              Cardinality({i \in 1..Len(resp.searched) :
                              Matches(Parsed[Some(resp.q)][1], resp.searched[i])})

C8_Witness ==
    /\ resp.kind = "results"
    /\ resp.limit = 1
    /\ resp.shown_hits = 1
    /\ resp.num_hits = 2

\* C9 as stated: every search on a handle is evaluated against the store
\* state that existed when the handle was opened.
C9_SearchSeesStateAtOpen ==
    resp.kind = "results" => resp.searched = opened

\* C9 amended: every search on a handle is evaluated against the documents
\* committed to the store at the time of the request, so a commit made after
\* the handle was opened is observed by the later searches on that handle.
C9_SearchSeesCommittedNow ==
    [][(resp' # resp /\ resp'.kind = "results") =>
          /\ resp'.searched = store.docs
          /\ resp'.num_hits =
                Cardinality({i \in 1..Len(store.docs) :
                                Matches(Parsed[Some(resp'.q)][1], store.docs[i])})]_vars

C9_Witness ==
    /\ resp.kind = "results"
    /\ opened = <<>>
    /\ resp.searched = store.docs
    /\ resp.num_hits = 2

\* C10 as stated: a successful build hands back the count of indexed
\* records, which is the number of accepted lines of the files walked and
\* the number of documents in the store after the commit.
C10_BuildReturnsCount ==
    result.tag = "Ok" =>
        /\ result.val = <<count>>
        /\ count = AcceptedLines(walked)
        /\ count = Len(store.docs)

\* C10 amended: a successful build returns Ok(()) and hands back no count; it
\* prints the count of indexed records, which is the number of accepted
\* lines of the files walked (directories add nothing) and the number of
\* documents in the store after the commit.
C10_BuildPrintsCount ==
    result.tag = "Ok" =>
        /\ result.val = <<>>
        /\ printed = <<count>>
        /\ count = AcceptedLines(walked)
        /\ count = Len(store.docs)

C10_Witness ==
    /\ result.tag = "Ok"
    /\ dirs > 0
    /\ Len(walked) = 2
    /\ count = 1
    /\ TotalLines(walked) = 2

====
